---- MODULE Spec2Model ----
(***************************************************************************)
(* elf2psexe: conversion of a 32-bit MIPS ELF executable into a PS-X EXE.  *)
(* The model follows src/elf2psexe/src/{main,elf,psexe}.rs.                *)
(*                                                                         *)
(*  - ElfReader::parse is modelled step by step: the eight header checks,  *)
(*    one step per section header entry, and the step after the walk.      *)
(*  - PsxWriter::dump is modelled step by step, each step ending with the  *)
(*    bytes it has written to the output file.                             *)
(*                                                                         *)
(* A Vec<u8> (section data, the output file) is a sequence of chunks       *)
(* [s |-> bytes, n |-> repetitions], so that a 1 MiB section is one chunk. *)
(* A u32 is the pair [h, l] of its two 16-bit halves, as word() of elf.rs  *)
(* assembles it, since the values reach past 2^31.  u32 arithmetic wraps   *)
(* at 2^32; a build with overflow checks (checked = TRUE, the debug        *)
(* profile) panics where the other wraps.                                  *)
(* Read, write and seek failures of the operating system are not modelled. *)
(***************************************************************************)
EXTENDS Integers, Sequences, FiniteSets, TLC

VARIABLES
    checked,              \* build profile: TRUE = overflow checks (debug)
    region,               \* main.rs: Region chosen by args[1]
    elf,                  \* the 52 bytes of the ELF header of the input file
    shtab,                \* the section header entries read so far
    pc,                   \* position in main / parse / dump
    err,                  \* panic message, "none" while running
    chk,                  \* parse: index of the next header validation
    s,                    \* parse: loop variable of the section walk
    entry, gp, stack,     \* ElfReader fields / arguments of dump
    sections,             \* ElfReader.sections, then dump's argument
    psexe,                \* PsxWriter.psexe: content of the output file
    base, end_addr,       \* dump locals
    actual_object_size, padded_object_size,
    memfill_base, memfill_length,
    offset,               \* dump: running offset of the payload loop
    i                     \* dump: index of the next progbits section

vars == <<checked, region, elf, shtab, pc, err, chk, s, entry, gp, stack,
          sections, psexe, base, end_addr, actual_object_size,
          padded_object_size, memfill_base, memfill_length, offset, i>>

readerVars == <<elf, shtab, chk, s, stack>>
dumpLocals == <<base, end_addr, actual_object_size, padded_object_size,
                memfill_base, memfill_length, offset, i>>

----------------------------------------------------------------------------
(* Bounds of the model *)

MaxSections == 3      \* longest section collection handed to dump directly
MaxShdrs == 3         \* largest section header table of an input file

----------------------------------------------------------------------------
(* u32 values *)

H16 == 65536                      \* 2^16: a u32 is h * 2^16 + l

U(h, l) == [h |-> h, l |-> l]

\* a length or literal below 2^31 as u32, and back
FromInt(n) == U(n \div H16, n % H16)
ToInt(x) == x.h * H16 + x.l

U0 == U(0, 0)

ULt(a, b) == a.h < b.h \/ (a.h = b.h /\ a.l < b.l)
ULe(a, b) == ~ULt(b, a)

\* a + b and a - b in u32: the wrapped value and whether it wrapped
overflowing_add(a, b) ==
    LET lo == a.l + b.l
        hi == a.h + b.h + (lo \div H16)
    IN [v |-> U(hi % H16, lo % H16), o |-> hi >= H16]

overflowing_sub(a, b) ==
    LET lo == a.l - b.l
        hi == a.h - b.h - (IF lo < 0 THEN 1 ELSE 0)
    IN [v |-> U(hi % H16, lo % H16), o |-> hi < 0]

----------------------------------------------------------------------------
(* Program constants *)

MaxObjectSize == 1048576          \* psexe.rs:83  1 * 1024 * 1024
BlockSize == 2048                 \* psexe.rs:87
RegionPadBase == 1935             \* psexe.rs:156
MinShentSize == 40                \* elf.rs:89
DefaultStack == U(32799, 65520)   \* elf.rs:39 and psexe.rs:129  0x801ffff0

\* the most bytes one write(2) call transfers on a Unix target (0x7ffff000):
\* File::write of a longer buffer returns less than its length
MaxRW == 2147479552

----------------------------------------------------------------------------
(* Byte vectors as sequences of chunks *)

\* n copies of byte b
Run(b, n) == [s |-> <<b>>, n |-> n]

\* the bytes of the sequence q, once
Lit(q) == [s |-> q, n |-> 1]

Zeros(n) == IF n = 0 THEN <<>> ELSE <<Run(0, n)>>

Bytes(q) == IF q = <<>> THEN <<>> ELSE <<Lit(q)>>

CLen(c) == Len(c.s) * c.n

RECURSIVE VLen(_)
VLen(v) == IF v = <<>> THEN 0 ELSE CLen(Head(v)) + VLen(Tail(v))

\* the byte at 0-based index k, -1 past the end
RECURSIVE VAt(_, _)
VAt(v, k) ==
    IF v = <<>> THEN -1
    ELSE IF k < CLen(Head(v)) THEN Head(v).s[(k % Len(Head(v).s)) + 1]
    ELSE VAt(Tail(v), k - CLen(Head(v)))

----------------------------------------------------------------------------
(* main.rs: Section, SectionType, Symbol, Region *)

Symbol(name, value, size, info, other, shndx) ==
    [name |-> name, value |-> value, size |-> size, info |-> info,
     other |-> other, shndx |-> shndx]

\* one record shape for the five variants of SectionType
Section(b, tag, data, len, syms) ==
    [base |-> b, tag |-> tag, data |-> data, len |-> len, syms |-> syms]

ProgBits(b, data) == Section(b, "ProgBits", data, U0, <<>>)
Memfill(b, len)   == Section(b, "Memfill", <<>>, len, <<>>)
Reginfo(b, data)  == Section(b, "Reginfo", data, U0, <<>>)
Strtab(b, data)   == Section(b, "Strtab", data, U0, <<>>)
Symtab(b, syms)   == Section(b, "Symtab", <<>>, U0, syms)

Regions == {"NA", "E", "J"}

----------------------------------------------------------------------------
(* psexe.rs: literals *)

Magic == <<80, 83, 45, 88, 32, 69, 88, 69>>                  \* "PS-X EXE"

LicensePrefix ==                     \* "Sony Computer Entertainment Inc. for "
    <<83, 111, 110, 121, 32, 67, 111, 109, 112, 117, 116, 101, 114, 32,
      69, 110, 116, 101, 114, 116, 97, 105, 110, 109, 101, 110, 116, 32,
      73, 110, 99, 46, 32, 102, 111, 114, 32>>

region_str(r) ==
    CASE r = "NA" -> <<78, 111, 114, 116, 104, 32, 65, 109, 101, 114, 105,
                       99, 97, 32, 97, 114, 101, 97>>    \* "North America area"
      [] r = "E"  -> <<69, 117, 114, 111, 112, 101, 32, 97, 114, 101, 97>>
      [] r = "J"  -> <<74, 97, 112, 97, 110, 32, 97, 114, 101, 97>>

\* write32: v as u8, (v >> 8) as u8, (v >> 16) as u8, (v >> 24) as u8
write32(v) ==
    Bytes(<<v.l % 256, v.l \div 256, v.h % 256, v.h \div 256>>)

----------------------------------------------------------------------------
(* psexe.rs: the pure parts of dump *)

\* sections.sort_by(|s1, s2| s1.base.cmp(&s2.base)): a stable sort
RECURSIVE InsertByBase(_, _)
InsertByBase(sorted, x) ==
    IF sorted = <<>> THEN <<x>>
    ELSE IF ULe(Head(sorted).base, x.base)
         THEN <<Head(sorted)>> \o InsertByBase(Tail(sorted), x)
         ELSE <<x>> \o sorted

RECURSIVE SortByBase(_)
SortByBase(q) ==
    IF q = <<>> THEN <<>>
    ELSE InsertByBase(SortByBase(SubSeq(q, 1, Len(q) - 1)), q[Len(q)])

IsProgBits(x) == x.tag = "ProgBits"
IsMemfill(x) == x.tag = "Memfill"

\* the filter_map of lines 160-166, and of lines 58-69, whose match names
\* only ProgBits and Memfill: the three other variants give None there too
ProgbitsOf(q) == SelectSeq(q, IsProgBits)
MemfillOf(q) == SelectSeq(q, IsMemfill)

\* line 83 with >= for >
TooBig_Inclusive(actual) == ULe(FromInt(MaxObjectSize), actual)

\* line 83, on the u32 actual_object_size
TooBig(actual) == ULt(FromInt(MaxObjectSize), actual)

\* lines 87-91 without the test for a multiple of the block size
PaddedSize_AlwaysRounds(actual) == actual + BlockSize - (actual % BlockSize)

\* lines 87-91, on an object size that passed line 83
PaddedSize(actual) ==
    IF actual % BlockSize = 0 THEN actual
    ELSE actual + BlockSize - (actual % BlockSize)

\* line 156 with the pad sized for "North America area" whatever the region
HeaderPad_Fixed(rs) == RegionPadBase - 18

\* line 156: the length of the pad after the region string
HeaderPad(rs) == RegionPadBase - Len(rs)

\* lines 112-121: the fold over the memfill sections ms from accumulator
\* acc = [err, base, lensum]
RECURSIVE MemfillFold(_, _, _)
MemfillFold(ms, acc, chkd) ==
    IF ms = <<>> \/ acc.err # "none" THEN acc
    ELSE LET m == Head(ms)
             end == overflowing_add(acc.base, acc.lensum)
             sum == overflowing_add(acc.lensum, m.len)
         IN IF acc.base = U0
            THEN MemfillFold(Tail(ms),
                   [err |-> "none", base |-> m.base, lensum |-> m.len], chkd)
            ELSE IF chkd /\ end.o
            THEN [acc EXCEPT !.err = "attempt to add with overflow"]
            ELSE IF end.v = m.base
            THEN IF chkd /\ sum.o
                 THEN [acc EXCEPT !.err = "attempt to add with overflow"]
                 ELSE MemfillFold(Tail(ms),
                        [err |-> "none", base |-> acc.base, lensum |-> sum.v],
                        chkd)
            ELSE [acc EXCEPT !.err = "Got discontiguous memfill sections!"]

----------------------------------------------------------------------------
(* psexe.rs: PsxWriter::dump, step by step *)

Fail(msg) == /\ err' = msg
             /\ pc' = "panicked"

\* lines 30-42: magic, padding, entry, gp
DumpStart ==
    /\ pc = "dump"
    /\ psexe' = psexe \o Bytes(Magic) \o Zeros(8) \o write32(entry)
                      \o write32(gp)
    /\ pc' = "sort"
    /\ UNCHANGED <<checked, region, readerVars, err, entry, gp, sections,
                   dumpLocals>>

\* lines 44-51: sort, base address
DumpBase ==
    /\ pc = "sort"
    /\ sections' = SortByBase(sections)
    /\ IF sections = <<>>
       THEN /\ Fail("index out of bounds")
            /\ UNCHANGED <<psexe, base>>
       ELSE /\ base' = sections'[1].base
            /\ psexe' = psexe \o write32(base')
            /\ pc' = "size"
            /\ err' = err
    /\ UNCHANGED <<checked, region, readerVars, entry, gp, end_addr,
                   actual_object_size, padded_object_size, memfill_base,
                   memfill_length, offset, i>>

\* lines 53-101: end address, object size, padded size, two reserved words
DumpSize ==
    /\ pc = "size"
    /\ LET progs == ProgbitsOf(sections)
           ends == [k \in 1..Len(progs) |->
                      overflowing_add(progs[k].base,
                                      FromInt(VLen(progs[k].data)))]
           e == ends[Len(progs)].v
           size == overflowing_sub(e, base)
       IN IF checked /\ \E k \in 1..Len(progs) : ends[k].o
          THEN /\ Fail("attempt to add with overflow")
               /\ UNCHANGED <<psexe, end_addr, actual_object_size,
                              padded_object_size>>
          ELSE IF progs = <<>>
          THEN /\ Fail("No progbits section found!")
               /\ UNCHANGED <<psexe, end_addr, actual_object_size,
                              padded_object_size>>
          ELSE IF checked /\ size.o
          THEN /\ Fail("attempt to subtract with overflow")
               /\ end_addr' = e
               /\ UNCHANGED <<psexe, actual_object_size, padded_object_size>>
          ELSE IF TooBig(size.v)
          THEN /\ Fail("Object is too big")
               /\ end_addr' = e
               /\ actual_object_size' = size.v
               /\ UNCHANGED <<psexe, padded_object_size>>
          ELSE /\ end_addr' = e
               /\ actual_object_size' = size.v
               /\ padded_object_size' = FromInt(PaddedSize(ToInt(size.v)))
               /\ psexe' = psexe \o write32(padded_object_size') \o Zeros(8)
               /\ pc' = "memfill"
               /\ err' = err
    /\ UNCHANGED <<checked, region, readerVars, entry, gp, sections, base,
                   memfill_base, memfill_length, offset, i>>

\* lines 103-126: the memfill pair
DumpMemfill ==
    /\ pc = "memfill"
    /\ LET r == MemfillFold(MemfillOf(sections),
                            [err |-> "none", base |-> U0, lensum |-> U0],
                            checked)
       IN IF r.err # "none"
          THEN /\ Fail(r.err)
               /\ UNCHANGED <<psexe, memfill_base, memfill_length>>
          ELSE /\ memfill_base' = r.base
               /\ memfill_length' = r.lensum
               /\ psexe' = psexe \o write32(r.base) \o write32(r.lensum)
               /\ pc' = "license"
               /\ err' = err
    /\ UNCHANGED <<checked, region, readerVars, entry, gp, sections, base,
                   end_addr, actual_object_size, padded_object_size, offset,
                   i>>

\* lines 128-168: stack words, register save area, license, pad; offset = base
DumpLicense ==
    /\ pc = "license"
    /\ LET sp == DefaultStack
           sp_off == U0
           rs == region_str(region)
       IN psexe' = psexe \o write32(sp) \o write32(sp_off) \o Zeros(20)
                         \o Bytes(LicensePrefix) \o Bytes(rs)
                         \o Zeros(HeaderPad(rs))
    /\ offset' = base
    /\ i' = 1
    /\ pc' = "progbits"
    /\ UNCHANGED <<checked, region, readerVars, err, entry, gp, sections,
                   base, end_addr, actual_object_size, padded_object_size,
                   memfill_base, memfill_length>>

\* lines 170-182: one iteration of the payload loop
DumpProgbits ==
    /\ pc = "progbits"
    /\ i <= Len(ProgbitsOf(sections))
    /\ LET p == ProgbitsOf(sections)[i]
           padlen == overflowing_sub(p.base, offset)
           next == overflowing_add(p.base, FromInt(VLen(p.data)))
       IN IF checked /\ padlen.o
          THEN /\ Fail("attempt to subtract with overflow")
               /\ UNCHANGED <<psexe, offset, i>>
          ELSE IF ULt(FromInt(MaxRW), padlen.v)
          THEN /\ Fail("Couldn't write bytes to file")
               /\ psexe' = psexe \o Zeros(MaxRW)
               /\ UNCHANGED <<offset, i>>
          ELSE IF checked /\ next.o
          THEN /\ Fail("attempt to add with overflow")
               /\ psexe' = psexe \o Zeros(ToInt(padlen.v)) \o p.data
               /\ UNCHANGED <<offset, i>>
          ELSE /\ psexe' = psexe \o Zeros(ToInt(padlen.v)) \o p.data
               /\ offset' = next.v
               /\ i' = i + 1
               /\ UNCHANGED <<pc, err>>
    /\ UNCHANGED <<checked, region, readerVars, entry, gp, sections, base,
                   end_addr, actual_object_size, padded_object_size,
                   memfill_base, memfill_length>>

\* lines 184-185: the trailing pad
DumpEndPad ==
    /\ pc = "progbits"
    /\ i > Len(ProgbitsOf(sections))
    /\ psexe' = psexe \o Zeros(ToInt(padded_object_size)
                               - ToInt(actual_object_size))
    /\ pc' = "done"
    /\ UNCHANGED <<checked, region, readerVars, err, entry, gp, sections,
                   dumpLocals>>

----------------------------------------------------------------------------
(* elf.rs: helpers *)

\* halfword and word: the 16-bit and 32-bit values at offset off of buf,
\* least significant byte first
halfword(buf, off) == VAt(buf, off) + 256 * VAt(buf, off + 1)

word(buf, off) == U(halfword(buf, off + 2), halfword(buf, off))

\* x % a in u32, a # 0.  Below 2^23 the remainder is taken byte by byte
\* of x; from 2^23 on the quotient is below 512 and is looked for.
UMod(x, a) ==
    IF a.h < 128
    THEN LET m == ToInt(a)
             r3 == (x.h \div 256) % m
             r2 == (r3 * 256 + (x.h % 256)) % m
             r1 == (r2 * 256 + (x.l \div 256)) % m
         IN FromInt((r1 * 256 + (x.l % 256)) % m)
    ELSE LET Le(q) == LET lo == q * a.l
                          hi == q * a.h + (lo \div H16)
                      IN hi < x.h \/ (hi = x.h /\ (lo % H16) <= x.l)
             qs == {q \in 0..511 : Le(q)}
             q == CHOOSE q \in qs : \A p \in qs : p <= q
         IN overflowing_sub(x, U((q * a.h + ((q * a.l) \div H16)) % H16,
                                 (q * a.l) % H16)).v

StackName == <<95, 95, 115, 116, 97, 99, 107>>               \* "__stack"

\* str_from_u8_nul_utf8(&strtab[off..]): the bytes from off up to the first
\* NUL or the end.  A string that is not UTF-8 becomes "" (unwrap_or), which
\* like any other non-ASCII string differs from "__stack".
RECURSIVE str_from_u8_nul_utf8(_, _)
str_from_u8_nul_utf8(utf8_src, off) ==
    IF off >= VLen(utf8_src) \/ VAt(utf8_src, off) = 0 THEN <<>>
    ELSE <<VAt(utf8_src, off)>> \o str_from_u8_nul_utf8(utf8_src, off + 1)

\* line 132: symtab.iter().find(..) from symbol k on.  Result:
\* [err, found, value]; slicing strtab past its end panics.
RECURSIVE FindStack(_, _, _)
FindStack(symtab, strtab, k) ==
    IF k > Len(symtab)
    THEN [err |-> "none", found |-> FALSE, value |-> U0]
    ELSE IF ULt(FromInt(VLen(strtab)), symtab[k].name)
    THEN [err |-> "range start index out of range for strtab",
          found |-> FALSE, value |-> U0]
    ELSE IF str_from_u8_nul_utf8(strtab, ToInt(symtab[k].name)) = StackName
    THEN [err |-> "none", found |-> TRUE, value |-> symtab[k].value]
    ELSE FindStack(symtab, strtab, k + 1)

IsReginfo(x) == x.tag = "Reginfo"
IsSymtab(x) == x.tag = "Symtab"
IsStrtab(x) == x.tag = "Strtab"

\* lines 210-218: data.chunks_exact(16) decoded into symbols
SymbolsOf(data) ==
    [j \in 1..(VLen(data) \div 16) |->
       LET o == 16 * (j - 1)
       IN Symbol(word(data, o), word(data, o + 4), word(data, o + 8),
                 VAt(data, o + 12), VAt(data, o + 13), halfword(data, o + 14))]

\* lines 146-236 of parse_section on the 40 header bytes hdr and the file
\* bytes data at the section's offset.  Result: [err, keep, section].
parse_section(hdr, data) ==
    LET section_type == word(hdr, 4)
        section_flags == word(hdr, 8)
        section_addr == word(hdr, 12)
        section_size == word(hdr, 20)
        section_align == word(hdr, 32)
        none == [err |-> "none", keep |-> FALSE, section |-> Memfill(U0, U0)]
        some(x) == [err |-> "none", keep |-> TRUE, section |-> x]
    IN IF section_align # U0 /\ UMod(section_addr, section_align) # U0
       THEN [none EXCEPT !.err = "bad section alignment"]
       ELSE IF (section_flags.l \div 2) % 2 # 0
       THEN CASE section_type = U(0, 1) -> some(ProgBits(section_addr, data))
              [] section_type = U(0, 8) ->
                   some(Memfill(section_addr, section_size))
              [] OTHER -> none
       ELSE CASE section_type = U(28672, 6) ->
                   some(Reginfo(section_addr, data))
              [] section_type = U(0, 2) ->
                   some(Symtab(section_addr, SymbolsOf(data)))
              [] section_type = U(0, 3) -> some(Strtab(section_addr, data))
              [] OTHER -> none

\* lines 55-91 with the entry size of line 89 checked nowhere
HeaderOk_NoSizeCheck(k, header) ==
    CASE k = 1 -> /\ VAt(header, 0) = 127 /\ VAt(header, 1) = 69
                  /\ VAt(header, 2) = 76 /\ VAt(header, 3) = 70
      [] k = 2 -> VAt(header, 4) = 1
      [] k = 3 -> VAt(header, 5) = 1
      [] k = 4 -> VAt(header, 6) = 1
      [] k = 5 -> halfword(header, 16) = 2
      [] k = 6 -> halfword(header, 18) = 8
      [] k = 7 -> word(header, 20) = U(0, 1)
      [] k = 8 -> TRUE

\* lines 55-91: the k-th validation of the header, in source order
HeaderOk(k, header) ==
    CASE k = 1 -> /\ VAt(header, 0) = 127 /\ VAt(header, 1) = 69
                  /\ VAt(header, 2) = 76 /\ VAt(header, 3) = 70
      [] k = 2 -> VAt(header, 4) = 1
      [] k = 3 -> VAt(header, 5) = 1
      [] k = 4 -> VAt(header, 6) = 1
      [] k = 5 -> halfword(header, 16) = 2
      [] k = 6 -> halfword(header, 18) = 8
      [] k = 7 -> word(header, 20) = U(0, 1)
      [] k = 8 -> halfword(header, 46) >= MinShentSize

HeaderMsg(k) ==
    CASE k = 1 -> "Invalid ELF file: bad magic"
      [] k = 2 -> "Invalid ELF file: not a 32bit object"
      [] k = 3 -> "Invalid ELF file: not a little endian object"
      [] k = 4 -> "Invalid ELF file: bad IDENT version"
      [] k = 5 -> "Invalid ELF file: not an executable"
      [] k = 6 -> "Invalid ELF file: not a MIPS executable"
      [] k = 7 -> "Invalid ELF file: bad object version"
      [] k = 8 -> "Invalid ELF file: bad section header size"

NumChecks == 8                    \* the validations of lines 55-91

section_count == halfword(elf, 48)

----------------------------------------------------------------------------
(* The input file *)

LE16(n) == <<n % 256, n \div 256>>
LE32(x) == LE16(x.l) \o LE16(x.h)

LoadBase == U(32769, 0)            \* 0x80010000, a usual PSX load address
EntryArg == U(32769, 8)            \* 0x80010008
GpArg == U(32770, 32753)           \* 0x80027ff1
StackSym == U(32799, 65280)        \* 0x801fff00, the value of __stack

At(b, d) == overflowing_add(b, FromInt(d)).v

\* an ELF header with n section header entries in which exactly the
\* validations of bad fail
ElfHeader(bad, n) ==
    Bytes(<<127, 69, 76, (IF 1 \in bad THEN 71 ELSE 70),
            (IF 2 \in bad THEN 2 ELSE 1),
            (IF 3 \in bad THEN 2 ELSE 1),
            (IF 4 \in bad THEN 0 ELSE 1),
            0, 0, 0, 0, 0, 0, 0, 0, 0>>
          \o LE16(IF 5 \in bad THEN 1 ELSE 2)
          \o LE16(IF 6 \in bad THEN 3 ELSE 8)
          \o LE32(IF 7 \in bad THEN U0 ELSE U(0, 1))
          \o LE32(EntryArg)
          \o LE32(U0)
          \o LE32(U(0, 52))
          \o LE32(U0)
          \o LE16(52) \o LE16(0) \o LE16(0)
          \o LE16(IF 8 \in bad THEN 39 ELSE 40)
          \o LE16(n)
          \o LE16(0))

\* a section header entry and the file bytes at its offset
Shdr(type, flags, addr, link, align, data) ==
    [hdr |-> Bytes(LE32(U0) \o LE32(type) \o LE32(flags) \o LE32(addr)
                   \o LE32(U(0, 4096)) \o LE32(FromInt(VLen(data)))
                   \o LE32(link) \o LE32(U0) \o LE32(align) \o LE32(U0)),
     data |-> data]

\* a NOBITS entry has a size and no bytes in the file
ShdrNobits(flags, addr, size, align) ==
    [hdr |-> Bytes(LE32(U0) \o LE32(U(0, 8)) \o LE32(flags) \o LE32(addr)
                   \o LE32(U(0, 4096)) \o LE32(size)
                   \o LE32(U0) \o LE32(U0) \o LE32(align) \o LE32(U0)),
     data |-> <<>>]

SymBytes(name, value) ==
    LE32(name) \o LE32(value) \o LE32(U0) \o <<0, 0>> \o LE16(0)

\* the section header entries an input file may hold
ShdrPool ==
    { Shdr(U0, U0, U0, U0, U0, <<>>),
      Shdr(U(0, 1), U(0, 6), LoadBase, U0, U(0, 16), <<Run(170, 16)>>),
      Shdr(U(0, 1), U(0, 3), At(LoadBase, 32), U0, U(0, 4), <<Run(221, 8)>>),
      Shdr(U(0, 1), U(0, 2), At(LoadBase, 2), U0, U(0, 4), <<Run(17, 2)>>),
      ShdrNobits(U(0, 3), At(LoadBase, 40), U(0, 64), U(0, 8)),
      Shdr(U(28672, 6), U0, U0, U0, U(0, 4),
           Zeros(20) \o Bytes(LE32(GpArg))),
      Shdr(U(0, 2), U0, U0, U(0, 2), U(0, 4),
           Bytes(SymBytes(U0, U0) \o SymBytes(U(0, 1), StackSym))),
      Shdr(U(0, 2), U0, U0, U(0, 2), U(0, 4),
           Bytes(SymBytes(U(0, 64), StackSym))),
      Shdr(U(0, 3), U0, U0, U0, U(0, 1), Bytes(<<0>> \o StackName \o <<0>>)),
      Shdr(U(0, 3), U0, U0, U0, U(0, 1),
           Bytes(<<0, 46, 116, 101, 120, 116, 0>>)) }

----------------------------------------------------------------------------
(* elf.rs: ElfReader::parse, step by step *)

\* lines 55-91: one validation of the header; entry is read after the
\* seventh, the section walk starts after the eighth
ParseHeader ==
    /\ pc = "parse"
    /\ IF ~HeaderOk(chk, elf)
       THEN /\ Fail(HeaderMsg(chk))
            /\ UNCHANGED <<chk, entry, s>>
       ELSE /\ chk' = chk + 1
            /\ entry' = IF chk = 7 THEN word(elf, 24) ELSE entry
            /\ pc' = IF chk = NumChecks THEN "walk" ELSE pc
            /\ s' = 0
            /\ err' = err
    /\ UNCHANGED <<checked, region, elf, shtab, gp, stack, sections, psexe,
                   dumpLocals>>

\* lines 93-99: one iteration of the section walk, on the entry the file
\* holds at index s
ParseSection ==
    /\ pc = "walk"
    /\ s < section_count
    /\ \E ent \in ShdrPool :
         /\ \A k \in 1..Len(shtab) : shtab[k] # ent
         /\ shtab' = Append(shtab, ent)
         /\ LET r == parse_section(ent.hdr, ent.data)
            IN IF r.err # "none"
               THEN /\ Fail(r.err)
                    /\ UNCHANGED <<s, sections>>
               ELSE /\ sections' = IF r.keep THEN Append(sections, r.section)
                                   ELSE sections
                    /\ s' = s + 1
                    /\ UNCHANGED <<pc, err>>
    /\ UNCHANGED <<checked, region, elf, chk, entry, gp, stack, psexe,
                   dumpLocals>>

\* lines 101-136: the checks and lookups after the walk
ParseFinish ==
    /\ pc = "walk"
    /\ s = section_count
    /\ LET reginfos == SelectSeq(sections, IsReginfo)
           symtabs == SelectSeq(sections, IsSymtab)
           strtabs == SelectSeq(sections, IsStrtab)
           look == IF symtabs # <<>> /\ strtabs # <<>>
                   THEN FindStack(symtabs[1].syms, strtabs[1].data, 1)
                   ELSE [err |-> "none", found |-> FALSE, value |-> U0]
       IN IF ProgbitsOf(sections) = <<>>
          THEN /\ Fail("No progbits section found")
               /\ UNCHANGED <<gp, stack>>
          ELSE IF reginfos # <<>> /\ VLen(reginfos[1].data) < 24
          THEN /\ Fail("index out of range for reginfo")
               /\ UNCHANGED <<gp, stack>>
          ELSE IF look.err # "none"
          THEN /\ Fail(look.err)
               /\ gp' = IF reginfos # <<>> THEN word(reginfos[1].data, 20)
                        ELSE gp
               /\ UNCHANGED stack
          ELSE /\ gp' = IF reginfos # <<>> THEN word(reginfos[1].data, 20)
                        ELSE gp
               /\ stack' = IF look.found THEN look.value ELSE stack
               /\ pc' = "parsed"
               /\ err' = err
    /\ UNCHANGED <<checked, region, elf, shtab, chk, s, entry, sections,
                   psexe, dumpLocals>>

----------------------------------------------------------------------------
(* main.rs: main *)

\* lines 66-73: the reader's results are handed to a new PsxWriter, whose
\* file is created empty.  (main passes sp as a fourth argument, which dump
\* as defined in psexe.rs does not take.)
MainDump ==
    /\ pc = "parsed"
    /\ psexe' = <<>>
    /\ pc' = "dump"
    /\ UNCHANGED <<checked, region, readerVars, err, entry, gp, sections,
                   dumpLocals>>

----------------------------------------------------------------------------
(* dump called directly: PsxWriter::new(path, region).dump(entry, sections, gp) *)

\* the sections a caller may hand to dump
DumpPool ==
    { ProgBits(LoadBase, <<>>),
      ProgBits(LoadBase, <<Run(170, 16)>>),
      ProgBits(LoadBase, <<Run(204, MaxObjectSize)>>),
      ProgBits(LoadBase, <<Run(205, MaxObjectSize + 1)>>),
      ProgBits(At(LoadBase, 32), <<Run(221, 8)>>),
      ProgBits(U(65535, 65520), <<Run(238, 32)>>),
      ProgBits(U(0, 4096), <<Run(153, 16)>>),
      Memfill(U0, FromInt(4)),
      Memfill(At(LoadBase, 64), U0),
      Memfill(At(LoadBase, 64), FromInt(16)),
      Memfill(At(LoadBase, 80), FromInt(16)),
      Symtab(U0, <<>>) }

\* the sequences of at most n distinct elements of S
RECURSIVE SeqsUpTo(_, _)
SeqsUpTo(S, n) ==
    IF n = 0 THEN {<<>>}
    ELSE LET shorter == SeqsUpTo(S, n - 1)
         IN shorter \cup
            UNION {{Append(q, x) : x \in {y \in S :
                                             \A k \in 1..Len(q) : q[k] # y}} :
                   q \in shorter}

\* the locals of dump before their first assignment
DumpLocalsInit ==
    /\ base = U0 /\ end_addr = U0
    /\ actual_object_size = U0 /\ padded_object_size = U0
    /\ memfill_base = U0 /\ memfill_length = U0
    /\ offset = U0 /\ i = 0

\* the ElfReader of a run that starts at dump
NoReader ==
    /\ elf = <<>> /\ shtab = <<>> /\ chk = 0 /\ s = 0
    /\ stack = DefaultStack

DumpInit ==
    /\ checked \in BOOLEAN
    /\ region \in Regions
    /\ sections \in SeqsUpTo(DumpPool, MaxSections)
    /\ entry = EntryArg
    /\ gp = GpArg
    /\ psexe = <<>>
    /\ pc = "dump"
    /\ err = "none"
    /\ NoReader
    /\ DumpLocalsInit

DumpNext ==
    \/ DumpStart
    \/ DumpBase
    \/ DumpSize
    \/ DumpMemfill
    \/ DumpLicense
    \/ DumpProgbits
    \/ DumpEndPad

SpecDump == DumpInit /\ [][DumpNext]_vars

----------------------------------------------------------------------------
(* The whole program: main on an input file *)

Init ==
    /\ checked \in BOOLEAN
    /\ region \in Regions
    /\ elf \in {ElfHeader(bad, n) : bad \in SUBSET (1..NumChecks),
                                   n \in 0..MaxShdrs}
    /\ shtab = <<>>
    /\ pc = "parse"
    /\ err = "none"
    /\ chk = 1
    /\ s = 0
    /\ entry = U0
    /\ gp = U0
    /\ stack = DefaultStack
    /\ sections = <<>>
    /\ psexe = <<>>
    /\ DumpLocalsInit

Next ==
    \/ ParseHeader
    \/ ParseSection
    \/ ParseFinish
    \/ MainDump
    \/ DumpStart
    \/ DumpBase
    \/ DumpSize
    \/ DumpMemfill
    \/ DumpLicense
    \/ DumpProgbits
    \/ DumpEndPad

Spec == Init /\ [][Next]_vars

----------------------------------------------------------------------------
(* Reading the output file back *)

\* the bytes before the payload: fixed fields, license prefix, region and pad
HeaderSize == 76 + 37 + RegionPadBase

\* the little-endian u32 at byte offset off of v
U32At(v, off) ==
    U(VAt(v, off + 2) + 256 * VAt(v, off + 3),
      VAt(v, off) + 256 * VAt(v, off + 1))

\* the bytes from..from+len-1 of chunk c (0-based) all equal b
ChunkAll(c, from, len, b) ==
    IF Len(c.s) = 1 THEN c.s[1] = b
    ELSE \A j \in from..(from + len - 1) : c.s[(j % Len(c.s)) + 1] = b

\* v holds len bytes from offset from on, all equal to b
RECURSIVE AllByte(_, _, _, _)
AllByte(v, from, len, b) ==
    IF len = 0 THEN TRUE
    ELSE IF v = <<>> THEN FALSE
    ELSE LET cl == CLen(Head(v))
             take == IF len < cl - from THEN len ELSE cl - from
         IN IF from >= cl THEN AllByte(Tail(v), from - cl, len, b)
            ELSE /\ ChunkAll(Head(v), from, take, b)
                 /\ AllByte(Tail(v), 0, len - take, b)

AllZero(v, from, len) == AllByte(v, from, len, 0)

\* v holds the bytes of the sequence q from offset from on
SameSeq(v, from, q) == \A k \in 1..Len(q) : VAt(v, from + k - 1) = q[k]

\* v holds the bytes of the vector w from offset from on
RECURSIVE SameBytes(_, _, _)
SameBytes(v, from, w) ==
    IF w = <<>> THEN TRUE
    ELSE /\ IF Len(Head(w).s) = 1
            THEN AllByte(v, from, Head(w).n, Head(w).s[1])
            ELSE \A k \in 0..(CLen(Head(w)) - 1) :
                   VAt(v, from + k) = VAt(<<Head(w)>>, k)
         /\ SameBytes(v, from + CLen(Head(w)), Tail(w))

\* the number of non-zero bytes of v from offset from on
RECURSIVE NonZeroFrom(_, _)
NonZeroFrom(v, from) ==
    IF v = <<>> THEN 0
    ELSE LET c == Head(v)
             cl == CLen(c)
         IN IF from >= cl THEN NonZeroFrom(Tail(v), from - cl)
            ELSE (IF Len(c.s) = 1
                  THEN (IF c.s[1] # 0 THEN cl - from ELSE 0)
                  ELSE Cardinality({j \in from..(cl - 1) :
                                      c.s[(j % Len(c.s)) + 1] # 0}))
                 + NonZeroFrom(Tail(v), 0)

NonZero(v) == NonZeroFrom(v, 0)

RECURSIVE SumNonZero(_)
SumNonZero(q) ==
    IF q = <<>> THEN 0 ELSE NonZero(Head(q).data) + SumNonZero(Tail(q))

\* dump has written the base address and has not panicked
PastBase == pc \in {"size", "memfill", "license", "progbits", "done"}
\* dump has accepted the object size
PastSize == pc \in {"memfill", "license", "progbits", "done"}
\* dump has merged the memfill sections
PastMemfill == pc \in {"license", "progbits", "done"}
\* dump has written the whole header
PastHeader == pc \in {"progbits", "done"}

Rejections ==
    {"No progbits section found!", "Object is too big",
     "Got discontiguous memfill sections!"}

IsLoaded(x) == x.tag \in {"ProgBits", "Memfill"}

----------------------------------------------------------------------------
(* Claims about dump *)

\* C1: the base load address in the header (bytes 24..28) is the smallest
\* address of the loaded (CodeData, ZeroFill) sections, whatever the order
\* of the collection and whatever metadata sections it retains.
C1_BaseIsLowestLoadedAddress ==
    LET loaded == SelectSeq(sections, IsLoaded)
    IN (PastBase /\ loaded # <<>>) =>
         /\ \E k \in 1..Len(loaded) : U32At(psexe, 24) = loaded[k].base
         /\ \A k \in 1..Len(loaded) : ULe(U32At(psexe, 24), loaded[k].base)

\* the memfill sections ms (ascending) are strictly contiguous from k on:
\* each base equals the first base plus the lengths before it
RECURSIVE ContiguousFrom(_, _, _)
ContiguousFrom(ms, k, end) ==
    IF k > Len(ms) THEN TRUE
    ELSE /\ ms[k].base = end
         /\ ContiguousFrom(ms, k + 1, overflowing_add(end, ms[k].len).v)

RECURSIVE SumLen(_)
SumLen(ms) ==
    IF ms = <<>> THEN U0
    ELSE overflowing_add(Head(ms).len, SumLen(Tail(ms))).v

\* C2: the memfill pair is (0, 0) without ZeroFill sections, else (first
\* base, sum of lengths) with every later section starting at the running
\* end; a section that does not start there makes dump fail with the
\* discontiguous-zero-fill error, also when the first base or length is 0.
C2_MemfillMerge ==
    LET ms == MemfillOf(sections)
        contiguous == ms = <<>> \/ ContiguousFrom(ms, 1, ms[1].base)
    IN /\ PastMemfill =>
            /\ contiguous
            /\ memfill_base = (IF ms = <<>> THEN U0 ELSE ms[1].base)
            /\ memfill_length = SumLen(ms)
       /\ (pc = "panicked" /\ err = "Got discontiguous memfill sections!")
            => ~contiguous

\* no CodeData section of q reaches past the end of the address space
NoWrap(q) ==
    \A k \in 1..Len(q) :
       IsProgBits(q[k]) =>
          ~overflowing_add(q[k].base, FromInt(VLen(q[k].data))).o

\* C3: for an accepted collection (sections inside the 32-bit address
\* space) the payload is paddedSize bytes long, holds every CodeData
\* section verbatim at (section base - header base) and zero everywhere
\* else, and the running offset never exceeds the base of the next CodeData
\* section, so that no gap is negative and the payload loop cannot fail.
C3_PayloadLayout ==
    LET progs == ProgbitsOf(sections)
    IN NoWrap(sections) =>
       /\ (pc = "progbits" /\ i <= Len(progs)) => ULe(offset, progs[i].base)
       /\ (pc = "panicked" => i = 0)
       /\ pc = "done" =>
            /\ VLen(psexe) = HeaderSize + ToInt(padded_object_size)
            /\ \A k \in 1..Len(progs) :
                 SameBytes(psexe,
                           HeaderSize
                             + ToInt(overflowing_sub(progs[k].base, base).v),
                           progs[k].data)
            /\ NonZeroFrom(psexe, HeaderSize) = SumNonZero(progs)

\* C4: a successful dump writes exactly 2048 bytes before the payload: the
\* fixed fields in bytes 0..76, the license prefix and region string from
\* byte 76, and zeros up to byte 2048, for each of the three regions.
C4_HeaderLayout ==
    LET rs == region_str(region)
        lic == LicensePrefix \o rs
    IN PastHeader =>
         /\ (i = 1 => VLen(psexe) = HeaderSize)
         /\ VLen(psexe) >= HeaderSize
         /\ SameSeq(psexe, 0, Magic)
         /\ AllZero(psexe, 8, 8)
         /\ U32At(psexe, 16) = entry
         /\ U32At(psexe, 20) = gp
         /\ U32At(psexe, 24) = base
         /\ U32At(psexe, 28) = padded_object_size
         /\ AllZero(psexe, 32, 8)
         /\ U32At(psexe, 40) = memfill_base
         /\ U32At(psexe, 44) = memfill_length
         /\ U32At(psexe, 48) = U(32799, 65520)
         /\ U32At(psexe, 52) = U0
         /\ AllZero(psexe, 56, 20)
         /\ SameSeq(psexe, 76, lic)
         /\ AllZero(psexe, 76 + Len(lic), HeaderSize - 76 - Len(lic))

C4_Witness ==
    /\ pc = "done"
    /\ region = "J"
    /\ VLen(psexe) > HeaderSize

\* C5: objectSize is the end of the last CodeData section (in sorted order)
\* minus base in u32, and dump fails with the object-too-large error exactly
\* when it exceeds 1,048,576.
C5_SizeCap ==
    LET progs == ProgbitsOf(sections)
        last == progs[Len(progs)]
        end == overflowing_add(last.base, FromInt(VLen(last.data))).v
        over == \/ actual_object_size.h > 16
                \/ actual_object_size.h = 16 /\ actual_object_size.l > 0
    IN (PastSize \/ (pc = "panicked" /\ err \in
                       {"Object is too big",
                        "Got discontiguous memfill sections!",
                        "Couldn't write bytes to file"})) =>
         /\ actual_object_size = overflowing_sub(end, base).v
         /\ (err = "Object is too big") <=> over

C5_Witness ==
    /\ pc = "done"
    /\ actual_object_size = U(16, 0)

\* C6: the padded size in the header (bytes 28..32) is a multiple of 2048,
\* at least the object size and less than 2048 above it, and is the object
\* size when that is a multiple of 2048.
C6_PaddedSize ==
    PastSize =>
       LET a == ToInt(actual_object_size)
           p == ToInt(U32At(psexe, 28))
       IN /\ p % 2048 = 0
          /\ p >= a
          /\ p - a < 2048
          /\ (a % 2048 = 0 => p = a)

C6_Witness ==
    /\ pc = "done"
    /\ actual_object_size = U(0, 40)
    /\ U32At(psexe, 28) = U(0, 2048)

\* C7: a collection without a CodeData section makes the conversion fail
\* with the missing-code-section error; here for the writer, which must
\* fail so for every such collection, the empty one included, and in no
\* other way.
C7_MissingCodeSection ==
    ProgbitsOf(sections) = <<>> =>
       /\ pc # "done"
       /\ pc = "panicked" => err \in {"No progbits section found!",
                                      "No progbits section found"}

\* C10: when dump rejects its input (no CodeData section, object too big,
\* discontiguous zero-fill) no byte of the header or of the payload has been
\* written to the output file, and none is written afterwards.
C10_NoPartialOutput ==
    (pc = "panicked" /\ err \in Rejections) => psexe = <<>>

----------------------------------------------------------------------------
(* Claims about ElfReader::parse *)

\* parse has returned: the reader's fields are final
Parsed ==
    pc \in {"parsed", "dump", "sort", "size", "memfill", "license",
            "progbits", "done"}

EntType(e) == word(e.hdr, 4)
EntAlloc(e) == (word(e.hdr, 8).l \div 2) % 2 = 1
EntLink(e) == word(e.hdr, 24)

\* the indices of the symbol tables of the section header table
SymtabEntries ==
    {k \in 1..Len(shtab) : ~EntAlloc(shtab[k]) /\ EntType(shtab[k]) = U(0, 2)}

TheSymtab == CHOOSE k \in SymtabEntries : \A j \in SymtabEntries : k <= j

\* the index of the string table the symbol table names in its link field
ItsStrtab == ToInt(EntLink(shtab[TheSymtab])) + 1

LinkedStrtab ==
    /\ SymtabEntries # {}
    /\ ItsStrtab \in 1..Len(shtab)
    /\ ~EntAlloc(shtab[ItsStrtab])
    /\ EntType(shtab[ItsStrtab]) = U(0, 3)

\* the symbols named "__stack" in the string table of their symbol table
StackSymbols ==
    LET syms == SymbolsOf(shtab[TheSymtab].data)
        names == shtab[ItsStrtab].data
    IN {j \in 1..Len(syms) :
          /\ ULe(syms[j].name, FromInt(VLen(names)))
          /\ str_from_u8_nul_utf8(names, ToInt(syms[j].name)) = StackName}

\* C8: the reader's stack-top is 0x801FFFF0 when no symbol is named
\* "__stack" in the string table that belongs to the symbol table, and is
\* that symbol's value otherwise; also with several string tables and with
\* name offsets past the end of the string table, which must not make the
\* reader fail.
C8_StackTop ==
    /\ (Parsed /\ SymtabEntries = {}) => stack = U(32799, 65520)
    /\ LinkedStrtab =>
         /\ ~(pc = "panicked"
              /\ err = "range start index out of range for strtab")
         /\ Parsed =>
              stack = (IF StackSymbols = {} THEN U(32799, 65520)
                       ELSE LET syms == SymbolsOf(shtab[TheSymtab].data)
                                j == CHOOSE j \in StackSymbols :
                                       \A k \in StackSymbols : j <= k
                            IN syms[j].value)

\* the validations of section 4.1 that the header violates
Violated ==
    {k \in 1..8 :
       CASE k = 1 -> <<VAt(elf, 0), VAt(elf, 1), VAt(elf, 2), VAt(elf, 3)>>
                       # <<127, 69, 76, 70>>
         [] k = 2 -> VAt(elf, 4) # 1
         [] k = 3 -> VAt(elf, 5) # 1
         [] k = 4 -> VAt(elf, 6) # 1
         [] k = 5 -> <<VAt(elf, 16), VAt(elf, 17)>> # <<2, 0>>
         [] k = 6 -> <<VAt(elf, 18), VAt(elf, 19)>> # <<8, 0>>
         [] k = 7 -> <<VAt(elf, 20), VAt(elf, 21), VAt(elf, 22), VAt(elf, 23)>>
                       # <<1, 0, 0, 0>>
         [] k = 8 -> VAt(elf, 46) + 256 * VAt(elf, 47) < 40}

FirstViolated == CHOOSE k \in Violated : \A j \in Violated : k <= j

ValidationError(k) ==
    <<"Invalid ELF file: bad magic",
      "Invalid ELF file: not a 32bit object",
      "Invalid ELF file: not a little endian object",
      "Invalid ELF file: bad IDENT version",
      "Invalid ELF file: not an executable",
      "Invalid ELF file: not a MIPS executable",
      "Invalid ELF file: bad object version",
      "Invalid ELF file: bad section header size">>[k]

\* C9: a header that violates any of the seven validations or the entry
\* size check makes the reader fail before any section header is read: no
\* section is parsed or collected, and the failure reported is that of the
\* first violated check in the order of section 4.1.
C9_ValidationBeforeSections ==
    Violated # {} =>
       /\ shtab = <<>>
       /\ sections = <<>>
       /\ pc \in {"parse", "panicked"}
       /\ pc = "parse" => chk <= FirstViolated
       /\ pc = "panicked" => err = ValidationError(FirstViolated)

C9_Witness ==
    /\ pc = "panicked"
    /\ err = "Invalid ELF file: bad IDENT version"
    /\ Violated = {4, 6, 8}
    /\ section_count > 0

====
